---- MODULE Spec2Model ----
(***************************************************************************)
(* The APOGEE + TESS tutorial notebook as a state machine.                 *)
(*                                                                         *)
(* The kernel namespace (the notebook's global names) is the record nb;    *)
(* the cells of the APOGEE part run top to bottom, one action per cell,    *)
(* and a cell that raises leaves the namespace as it was and hands control *)
(* back, so the next cell can still be run.  After them                    *)
(* plot_variable_star is called, any number of times, for any identifier:  *)
(* one action per blocking stage of its body, its local names in the       *)
(* record run.  The archive's answers (rows of a query, products of an     *)
(* observation) are inputs drawn from bounded sets at the call that asks   *)
(* for them; the contents of the spectrum files are fixed in Init.         *)
(*                                                                         *)
(* Wavelengths are kept exactly, as base-10 logarithms over one common     *)
(* denominator: np.logspace(a, b, n)[i] = 10^(a + i*(b-a)/(n-1)) is the    *)
(* numerator a*(n-1) + i*(b-a) over the denominator n-1.  10^x is strictly *)
(* increasing, so order and equality of wavelengths are order and equality *)
(* of these numerators.                                                    *)
(*                                                                         *)
(* Besides the cells (SpecCells, SpecWls) and the invocations of           *)
(* plot_variable_star (Spec), four parts are taken on their own:           *)
(* plot_spectrum_and_lc statement by statement on the contents of its      *)
(* files (SpecFigure), the download statement against the download         *)
(* directory (SpecDownload), the filter and download cells of the JWST     *)
(* proposal notebook (SpecJwst), and two invocations of plot_variable_star *)
(* in threads over pyplot's current figure (SpecThreads).                  *)
(***************************************************************************)
EXTENDS Integers, Sequences, FiniteSets, TLC

VARIABLES hdr, nb, cell, run, files, indexed, fig, dl, jw, par

vars == <<hdr, nb, cell, run, files, indexed, fig, dl, jw, par>>

\* ------------------------------------------------------------------ bounds
MaxObs == 2     \* rows an archive query returns: 0..MaxObs
MaxDist == 1    \* the distance column holds 0..MaxDist
MaxPix == 2     \* NAXIS1 of a spectrum file: 1..MaxPix
MaxRef == 1     \* CRVAL1 of a header triplet: 0..MaxRef
MaxStep == 3    \* CDELT1 of a header triplet: 1..MaxStep
MaxPixW == 6    \* NAXIS1 of a header triplet: 0..MaxPixW
MaxSamples == 2 \* samples of a light curve's TIME column: 0..MaxSamples
MaxCalls == 2   \* times the download statement is run on one product list
MaxProducts == 6 \* products of the JWST observation: 0..MaxProducts

\* ------------------------------------------------------------- identifiers
FirstStar == "V1154_Cyg"
Ids == {FirstStar, "2M11361176+8117369"}

\* Observations.query_criteria matches string criteria with wildcards (the
\* code's own dataURL="*lc.fits"): a target_name pattern finds the star it
\* matches.  The identifiers plot_variable_star is called with, and the
\* star whose observations the archive returns for each.
Wildcard == "V1154*"
CallIds == Ids \cup {Wildcard}
TargetOf(id) == IF id = Wildcard THEN FirstStar ELSE id

Seqs(S, n) == UNION {[1..k -> S] : k \in 0..n}

\* An optional value: <<>> when the name is not bound, <<v>> when it is v.
Undef == <<>>
Some(v) == <<v>>
IsDef(o) == o # <<>>
Val(o) == o[1]

\* ------------------------------------------------------------ pure helpers
\* np.argmin as numpy computes it: one pass, the index moves only to a
\* strictly smaller element (1-based here).
RECURSIVE ArgMinFrom(_, _, _)
ArgMinFrom(d, i, best) ==
    IF i > Len(d) THEN best
    ELSE ArgMinFrom(d, i + 1, IF d[i] < d[best] THEN i ELSE best)

\* A variant that moves the index on ties as well: the last minimum.
RECURSIVE ArgMinFromLast(_, _, _)
ArgMinFromLast(d, i, best) ==
    IF i > Len(d) THEN best
    ELSE ArgMinFromLast(d, i + 1, IF d[i] <= d[best] THEN i ELSE best)

ArgMinLast(d) == ArgMinFromLast(d, 2, 1)

ArgMin(d) == ArgMinFrom(d, 2, 1)

\* A variant with the two end values exchanged.
LogspaceSwapped(start, stop, num) ==
    LET den == IF num > 1 THEN num - 1 ELSE 1
    IN  [den |-> den,
         nums |-> [i \in 1..num |-> stop * den + (i - 1) * (start - stop)]]

\* np.logspace(start, stop, num), endpoint included, in the exact
\* representation described above.
Logspace(start, stop, num) ==
    LET den == IF num > 1 THEN num - 1 ELSE 1
    IN  [den |-> den,
         nums |-> [i \in 1..num |-> start * den + (i - 1) * (stop - start)]]

\* The apogee_wls expression: the stop value reads NAXIS1 of extension 3,
\* the element count NAXIS1 of extension 1.
ApogeeWls(h) ==
    Logspace(h.CRVAL1, h.CRVAL1 + h.CDELT1 * h.NAXIS1_3, h.NAXIS1)

\* --------------------------------------------------------- archive (input)
Subgroups == {"ASPCAPSTAR", "APVISIT"}
TessProductLists ==
    {<<"Target pixel files">>, <<"Light curves">>,
     <<"Target pixel files", "Light curves">>}

\* A well-formed spectrum file: its flux, error and model extensions all
\* hold NAXIS1 pixels.
Header(ref, step, n) ==
    [CRVAL1 |-> ref, CDELT1 |-> step, NAXIS1 |-> n, NAXIS1_3 |-> n]

\* The spectrum files of the archive: two reference values, unit step.
SpecHeaders == {Header(ref, 1, n) : ref \in {0, 1}, n \in 1..MaxPix}

\* The table Observations.query_criteria returns for a target: n rows.
Rows(id, n) == [k \in 1..n |-> [star |-> id, row |-> k]]

\* Observations.get_product_list: one product per observation row here,
\* its subgroup label given by subs.
ProductsOf(obs, subs) ==
    [k \in 1..Len(obs) |-> [obs |-> obs[k], label |-> subs[k]]]

\* Observations.download_products(products, <label filter>): the manifest of
\* the matching products, in listing order; None when nothing matches.
MatchingProducts(products, label) ==
    SelectSeq(products, LAMBDA p : p.label = label)

DownloadProducts(products, label) ==
    LET sel == MatchingProducts(products, label)
    IN  IF sel = <<>> THEN [state |-> "None", rows |-> <<>>]
        ELSE [state |-> "table", rows |-> sel]

UndefManifest == [state |-> "undef", rows |-> <<>>]

\* ------------------------------------------------------------------- state
IdleRun ==
    [pc |-> "idle", id |-> "", trace |-> <<>>, err |-> "", failedAt |-> "",
     apogee_obs_list |-> <<>>, product_list |-> <<>>,
     manifest |-> UndefManifest, aspcapstar |-> Undef, coord |-> Undef,
     tess_obs |-> <<>>, tess_row |-> 0, tess_products |-> <<>>,
     tess_lc |-> Undef, filesAtStart |-> {}, artifact |-> Undef]

EmptyKernel ==
    [apogee_obs_list |-> Undef, products |-> Undef, manifest |-> UndefManifest,
     aspcap_star |-> Undef, apogee_wls |-> Undef, allstar |-> Undef]

\* plot_spectrum_and_lc has not been called on its own; the download
\* directory is not under observation.
NoFigure == [pc |-> "none"]
NoDownloads == [pc |-> "none"]

\* The JWST proposal notebook is not being run; plot_variable_star is not
\* being run in threads.
NoJwst == [pc |-> "none"]
NoThreads == [pc |-> "none"]

\* A fresh kernel: the notebook's cells have not run.
InitCells ==
    /\ hdr \in [Ids -> SpecHeaders]
    /\ nb = EmptyKernel
    /\ cell = "search"
    /\ run = IdleRun
    /\ files = {}
    /\ indexed = Undef
    /\ jw = NoJwst
    /\ par = NoThreads
    /\ fig = NoFigure
    /\ dl = NoDownloads

\* ------------------------------------------------- the cells, top to bottom
\* apogee_obs_list = Observations.query_criteria(..., target_name='V1154_Cyg')
CellSearchStar ==
    /\ cell = "search"
    /\ \E n \in 0..MaxObs :
          nb' = [nb EXCEPT !.apogee_obs_list = Some(Rows(FirstStar, n))]
    /\ cell' = "products"
    /\ UNCHANGED <<jw, par, fig, dl, hdr, run, files, indexed>>

\* products = Observations.get_product_list(apogee_obs_list)
\* For an empty table the library either raises or lists nothing.
CellListProducts ==
    /\ cell = "products"
    /\ cell' = "download"
    /\ IF ~IsDef(nb.apogee_obs_list) THEN nb' = nb
       ELSE LET obs == Val(nb.apogee_obs_list)
            IN  IF obs = <<>>
                THEN \/ nb' = nb
                     \/ nb' = [nb EXCEPT !.products = Some(<<>>)]
                ELSE \E subs \in [1..Len(obs) -> Subgroups] :
                        nb' = [nb EXCEPT !.products = Some(ProductsOf(obs, subs))]
    /\ UNCHANGED <<jw, par, fig, dl, hdr, run, files, indexed>>

\* manifest = Observations.download_products(products,
\*                                productSubGroupDescription='ASPCAPSTAR')
CellDownload ==
    /\ cell = "download"
    /\ cell' = "open"
    /\ nb' = IF ~IsDef(nb.products) THEN nb
             ELSE [nb EXCEPT !.manifest =
                       DownloadProducts(Val(nb.products), "ASPCAPSTAR")]
    /\ UNCHANGED <<jw, par, fig, dl, hdr, run, files, indexed>>
\* aspcap_star = fits.open(manifest['Local Path'][0])
\* manifest unbound: NameError; manifest None: TypeError.
CellOpen ==
    /\ cell = "open"
    /\ cell' = "spectrum"
    /\ nb' = IF nb.manifest.state = "table"
             THEN [nb EXCEPT !.aspcap_star = Some(nb.manifest.rows[1])]
             ELSE nb
    /\ UNCHANGED <<jw, par, fig, dl, hdr, run, files, indexed>>

\* indexed: the lengths of the arrays the last boolean-mask indexing of the
\* cell or call under way brought together:
\* the wavelength array, the observed flux (extension 1), the error array
\* behind the mask (extension 2), the model flux (extension 3), and NAXIS1
\* of the file the fluxes come from.
Lengths(wls, file) ==
    [wl |-> Len(wls.arr.nums),
     obs |-> hdr[file.obs.star].NAXIS1,
     err |-> hdr[file.obs.star].NAXIS1,
     model |-> hdr[file.obs.star].NAXIS1_3,
     npix |-> hdr[file.obs.star].NAXIS1]

\* numpy accepts a boolean mask only on an array of the mask's length.
MaskFits(l) == l.wl = l.err /\ l.obs = l.err /\ l.model = l.err

\* The wavelength array derived from the header of a star's aspcapStar file.
WlsOf(star) == [src |-> star, arr |-> ApogeeWls(hdr[star])]

\* The spectrum cell: apogee_wls = np.logspace(<header of aspcap_star>),
\* then apogee_wls[pixel_mask], observed_flux[pixel_mask],
\* model_flux[pixel_mask].
CellSpectrum ==
    /\ cell = "spectrum"
    /\ cell' = "allstar"
    /\ IF ~IsDef(nb.aspcap_star) THEN UNCHANGED <<nb, indexed>>
       ELSE LET file == Val(nb.aspcap_star)
                wls == WlsOf(file.obs.star)
            IN  /\ nb' = [nb EXCEPT !.apogee_wls = Some(wls)]
                /\ indexed' = Some(Lengths(wls, file))
    /\ UNCHANGED <<jw, par, fig, dl, hdr, run, files>>

\* Observations.download_file(<allStar>) and
\* allstar = Table.read('allStar-dr17-synspec_rev1.fits', hdu=1):
\* the APOGEE_ID column of the catalog, when the file could be fetched.
CellReadAllstar ==
    /\ cell = "allstar"
    /\ cell' = "calls"
    /\ \/ nb' = nb
       \/ \E ids \in SUBSET Ids : nb' = [nb EXCEPT !.allstar = Some(ids)]
    /\ UNCHANGED <<jw, par, fig, dl, hdr, run, files, indexed>>

\* ------------------------------------------------------ plot_spectrum_and_lc
Suffix == "_APOGEE_spec_TESS_lightcurve.png"
SaveName(apogee_id) == <<apogee_id, Suffix>>

\* A variant that saves whether or not the panels could be built.
SavedFilesAlways(fs, ok, name) == fs \cup {name}

\* plt.savefig(save_name) is the last statement but two of the function:
\* it is reached only when nothing before it raised.
SavedFiles(fs, ok, name) == IF ok THEN fs \cup {name} ELSE fs

\* The function reads two global names, allstar and apogee_wls, besides its
\* two arguments.  The result is what it leaves behind: the error raised, if
\* any, the lengths it indexed together, and the figure.
PlotSpectrumAndLc(apogee_spec, tess_lightcurve) ==
    LET apogee_id == apogee_spec.obs.star
        none == [err |-> "", indexed |-> Undef, artifact |-> Undef]
    IN  IF ~IsDef(nb.allstar) THEN [none EXCEPT !.err = "NameError"]
        ELSE IF apogee_id \notin Val(nb.allstar)
        THEN [none EXCEPT !.err = "IndexError"]
        ELSE IF ~IsDef(nb.apogee_wls) THEN [none EXCEPT !.err = "NameError"]
        ELSE LET wls == Val(nb.apogee_wls)
                 l == Lengths(wls, apogee_spec)
             IN  IF ~MaskFits(l)
                 THEN [none EXCEPT !.err = "IndexError", !.indexed = Some(l)]
                 ELSE [err |-> "",
                       indexed |-> Some(l),
                       artifact |-> Some(
                          [save_name |-> SaveName(apogee_id),
                           wl |-> wls.arr,
                           wl_src |-> wls.src,
                           spectrum |-> apogee_spec,
                           lightcurve |-> tess_lightcurve])]
\* -------------------------------------------------------- plot_variable_star
\* The statements of the body, in program order, by the stage each belongs to.
StageOrder ==
    <<"query", "list", "download", "open", "tess_query", "closest",
      "tess_list", "tess_download", "tess_open", "plot">>

StageIndex(stage) == CHOOSE i \in 1..Len(StageOrder) : StageOrder[i] = stage

\* A variant that goes from the spectrum download straight to the TESS query.
NextStageSkipOpen(stage) ==
    IF stage = "download" THEN "tess_query"
    ELSE IF StageIndex(stage) = Len(StageOrder) THEN "done"
    ELSE StageOrder[StageIndex(stage) + 1]

\* Control falls from each statement to the one below it; after the last the
\* function returns.
NextStage(stage) ==
    IF StageIndex(stage) = Len(StageOrder) THEN "done"
    ELSE StageOrder[StageIndex(stage) + 1]

\* A stage begins: it is entered in the trace of the invocation.
Enter(stage) == [run EXCEPT !.trace = Append(@, stage)]

\* A stage returns, with the local names it bound.
Return(r, stage) == [r EXCEPT !.pc = NextStage(stage)]

\* A stage raises: the exception leaves plot_variable_star, which catches
\* nothing.
Raise(r, stage, e) == [r EXCEPT !.pc = "failed", !.err = e, !.failedAt = stage]

Running == run.pc \notin {"idle", "done", "failed"}

\* What the caller is told of a failure: plot_variable_star has no try and no
\* raise of its own, so it is the text of the library's exception, in pieces.
ErrorText(e) ==
    CASE e = "InvalidQueryError" ->
            <<"Observation list is empty, no associated products.">>
      [] e = "TypeError" -> <<"'NoneType' object is not subscriptable">>
      [] e = "ValueError" -> <<"attempt to get argmin of an empty sequence">>
      [] e = "IndexError" -> <<"index out of bounds">>
      [] e = "NameError" -> <<"name is not defined">>
      [] OTHER -> <<>>

\* plot_variable_star(apogee_id) is called from a cell.
Call ==
    /\ cell = "calls"
    /\ ~Running
    /\ \E id \in CallIds :
          run' = [IdleRun EXCEPT !.pc = StageOrder[1], !.id = id,
                                 !.filesAtStart = files]
    /\ indexed' = Undef
    /\ UNCHANGED <<jw, par, fig, dl, hdr, nb, cell, files>>

\* apogee_obs_list = Observations.query_criteria(provenance_name='APOGEE',
\*                                               target_name=apogee_id)
Query ==
    /\ run.pc = "query"
    /\ \E n \in 0..MaxObs :
          run' = Return([Enter("query") EXCEPT
                            !.apogee_obs_list =
                                Rows(TargetOf(run.id), n)], "query")
    /\ UNCHANGED <<jw, par, fig, dl, hdr, nb, cell, files, indexed>>

\* product_list = Observations.get_product_list(apogee_obs_list)
ListProducts ==
    /\ run.pc = "list"
    /\ LET r == Enter("list")
           obs == run.apogee_obs_list
       IN  IF obs = <<>>
           THEN \/ run' = Raise(r, "list", "InvalidQueryError")
                \/ run' = Return(r, "list")
           ELSE \E subs \in [1..Len(obs) -> Subgroups] :
                   run' = Return([r EXCEPT !.product_list =
                                      ProductsOf(obs, subs)], "list")
    /\ UNCHANGED <<jw, par, fig, dl, hdr, nb, cell, files, indexed>>

\* manifest = Observations.download_products(product_list,
\*                                productSubGroupDescription='ASPCAPSTAR')
Download ==
    /\ run.pc = "download"
    /\ run' = Return([Enter("download") EXCEPT !.manifest =
                         DownloadProducts(run.product_list, "ASPCAPSTAR")],
                     "download")
    /\ UNCHANGED <<jw, par, fig, dl, hdr, nb, cell, files, indexed>>

\* aspcapstar = fits.open(manifest['Local Path'][0])
\* Subscripting None raises TypeError before fits.open is called.
Open ==
    /\ run.pc = "open"
    /\ LET r == Enter("open")
       IN  run' = IF run.manifest.state = "table"
                  THEN Return([r EXCEPT !.aspcapstar =
                                   Some(run.manifest.rows[1])], "open")
                  ELSE Raise(r, "open", "TypeError")
    /\ UNCHANGED <<jw, par, fig, dl, hdr, nb, cell, files, indexed>>

\* coord = SkyCoord(ra=apogee_obs_list['s_ra'][0], dec=...['s_dec'][0])
\* tess_obs = Observations.query_criteria(coordinates=coord, radius=...,
\*                                        obs_collection='TESS', ...)
\* The answer is the distance column of the rows found.
TessQuery ==
    /\ run.pc = "tess_query"
    /\ LET r == Enter("tess_query")
       IN  IF run.apogee_obs_list = <<>>
           THEN run' = Raise(r, "tess_query", "IndexError")
           ELSE \E d \in Seqs(0..MaxDist, MaxObs) :
                   run' = Return([r EXCEPT
                                     !.coord = Some(run.apogee_obs_list[1]),
                                     !.tess_obs = d], "tess_query")
    /\ UNCHANGED <<jw, par, fig, dl, hdr, nb, cell, files, indexed>>

\* tess_obs = tess_obs[np.argmin(tess_obs['distance'])]
\* np.argmin of an empty column raises ValueError.
Closest ==
    /\ run.pc = "closest"
    /\ LET r == Enter("closest")
       IN  run' = IF run.tess_obs = <<>>
                  THEN Raise(r, "closest", "ValueError")
                  ELSE Return([r EXCEPT !.tess_row = ArgMin(run.tess_obs)],
                              "closest")
    /\ UNCHANGED <<jw, par, fig, dl, hdr, nb, cell, files, indexed>>

\* tess_products = Observations.get_product_list(tess_obs)
TessList ==
    /\ run.pc = "tess_list"
    /\ \E labels \in TessProductLists :
          run' = Return([Enter("tess_list") EXCEPT !.tess_products =
                            [k \in 1..Len(labels) |->
                               [obs |-> [coord |-> Val(run.coord),
                                         row |-> run.tess_row],
                                label |-> labels[k]]]], "tess_list")
    /\ UNCHANGED <<jw, par, fig, dl, hdr, nb, cell, files, indexed>>

\* manifest = Observations.download_products(tess_products,
\*                                           description='Light curves')
TessDownload ==
    /\ run.pc = "tess_download"
    /\ run' = Return([Enter("tess_download") EXCEPT !.manifest =
                         DownloadProducts(run.tess_products, "Light curves")],
                     "tess_download")
    /\ UNCHANGED <<jw, par, fig, dl, hdr, nb, cell, files, indexed>>

\* tess_lc = fits.open(manifest['Local Path'][0])
TessOpen ==
    /\ run.pc = "tess_open"
    /\ LET r == Enter("tess_open")
       IN  run' = IF run.manifest.state = "table"
                  THEN Return([r EXCEPT !.tess_lc =
                                   Some(run.manifest.rows[1])], "tess_open")
                  ELSE Raise(r, "tess_open", "TypeError")
    /\ UNCHANGED <<jw, par, fig, dl, hdr, nb, cell, files, indexed>>

\* plot_spectrum_and_lc(aspcapstar, tess_lc)
Plot ==
    /\ run.pc = "plot"
    /\ LET r == Enter("plot")
           res == PlotSpectrumAndLc(Val(run.aspcapstar), Val(run.tess_lc))
           ok == res.err = ""
       IN  /\ run' = IF ok
                     THEN Return([r EXCEPT !.artifact = res.artifact], "plot")
                     ELSE Raise(r, "plot", res.err)
           /\ indexed' = IF IsDef(res.indexed) THEN res.indexed ELSE indexed
           /\ files' = SavedFiles(files, ok,
                                  SaveName(Val(run.aspcapstar).obs.star))
    /\ UNCHANGED <<jw, par, fig, dl, hdr, nb, cell>>

\* ---------------------------------------------------------- specifications
\* The notebook's cells, run top to bottom on a fresh kernel.
NextCells ==
    \/ CellSearchStar
    \/ CellListProducts
    \/ CellDownload
    \/ CellOpen
    \/ CellSpectrum
    \/ CellReadAllstar

SpecCells == InitCells /\ [][NextCells]_vars

\* What the cells above the helper functions leave in the kernel, as far as
\* the helper functions read it: apogee_wls is unbound (a cell before it
\* raised) or the array of the first star's file, allstar is unbound or the
\* catalog.  The other names take the values of one run of the cells that
\* ends so.
KernelsAfterCells ==
    LET found == ProductsOf(Rows(FirstStar, 1), <<"ASPCAPSTAR">>)
        bound == [EmptyKernel EXCEPT
                     !.apogee_obs_list = Some(Rows(FirstStar, 1)),
                     !.products = Some(found),
                     !.manifest = DownloadProducts(found, "ASPCAPSTAR"),
                     !.aspcap_star = Some(found[1]),
                     !.apogee_wls = Some(WlsOf(FirstStar))]
        unbound == [EmptyKernel EXCEPT !.apogee_obs_list = Some(<<>>)]
    IN  {[k EXCEPT !.allstar = cat] :
            k \in {bound, unbound},
            cat \in {Undef} \cup {Some(ids) : ids \in SUBSET Ids}}

\* The kernel when plot_variable_star is first called.  The first star's
\* file holds MaxPix pixels from reference value 0; the other files vary.
Init ==
    /\ hdr \in {h \in [Ids -> SpecHeaders] :
                   h[FirstStar] = Header(0, 1, MaxPix)}
    /\ nb \in KernelsAfterCells
    /\ cell = "calls"
    /\ run = IdleRun
    /\ files = {}
    /\ indexed = Undef
    /\ jw = NoJwst
    /\ par = NoThreads
    /\ fig = NoFigure
    /\ dl = NoDownloads

Next ==
    \/ Call
    \/ Query
    \/ ListProducts
    \/ Download
    \/ Open
    \/ TessQuery
    \/ Closest
    \/ TessList
    \/ TessDownload
    \/ TessOpen
    \/ Plot

Spec == Init /\ [][Next]_vars

\* Every kernel the cells can leave agrees with one of KernelsAfterCells on
\* the names the helper functions read.
KernelAfterCellsCovered ==
    cell = "calls" =>
        \E k \in KernelsAfterCells :
           k.apogee_wls = nb.apogee_wls /\ k.allstar = nb.allstar
\* Header triplets at large: the cells on a fresh kernel, the first star's
\* file carrying any triplet with a positive step (CRVAL1 is the minimum
\* wavelength, CDELT1 the step).
Triplets ==
    {Header(ref, step, n) :
        ref \in 0..MaxRef, step \in 1..MaxStep, n \in 0..MaxPixW}

InitWls ==
    /\ hdr \in {[s \in Ids |-> h] : h \in Triplets}
    /\ nb = EmptyKernel
    /\ cell = "search"
    /\ run = IdleRun
    /\ files = {}
    /\ indexed = Undef
    /\ jw = NoJwst
    /\ par = NoThreads
    /\ fig = NoFigure
    /\ dl = NoDownloads

SpecWls == InitWls /\ [][NextCells]_vars

\* ------------------------------------------ plot_spectrum_and_lc, in detail
\* The function statement by statement, on the contents of the files it is
\* handed.  Uncertainties are in hundredths, times in half days; a sample
\* that is NaN, and a catalog entry that is masked, is the unbound value.
Threshold == 10
ErrValues == {Undef, Some(9), Some(10), Some(11)}
TimeValues == {Undef, Some(3), Some(4), Some(9)}

\* A comparison that also admits equality.
BelowOrEqual(x, t) == IsDef(x) /\ Val(x) <= t

\* x < t as numpy evaluates it: False for NaN.
Below(x, t) == IsDef(x) /\ Val(x) < t

\* pixel_mask = (apogee_spec[2].data < 0.1)
PixelMask(err) == [i \in 1..Len(err) |-> Below(err[i], Threshold)]

\* a[pixel_mask]: the pixels of a at which the mask is True, in order.
Masked(mask) == SelectSeq([i \in 1..Len(mask) |-> i], LAMBDA i : mask[i])

Defined(a) == {Val(a[i]) : i \in {j \in 1..Len(a) : IsDef(a[j])}}
SetMin(S) == CHOOSE m \in S : \A x \in S : m <= x
SetMax(S) == CHOOSE m \in S : \A x \in S : x <= m

\* A minimum that a single NaN sample turns into NaN, as np.min does.
MinPropagating(a) ==
    IF a = <<>> THEN [err |-> "ValueError", v |-> Undef]
    ELSE IF \E i \in 1..Len(a) : ~IsDef(a[i]) THEN [err |-> "", v |-> Undef]
    ELSE [err |-> "", v |-> Some(SetMin(Defined(a)))]

\* np.nanmin / np.nanmax: NaN samples are left out; of nothing but NaN the
\* result is NaN; an empty array raises ValueError.
NanMin(a) ==
    IF a = <<>> THEN [err |-> "ValueError", v |-> Undef]
    ELSE IF Defined(a) = {} THEN [err |-> "", v |-> Undef]
    ELSE [err |-> "", v |-> Some(SetMin(Defined(a)))]

NanMax(a) ==
    IF a = <<>> THEN [err |-> "ValueError", v |-> Undef]
    ELSE IF Defined(a) = {} THEN [err |-> "", v |-> Undef]
    ELSE [err |-> "", v |-> Some(SetMax(Defined(a)))]

\* int(t) of a non-negative time: the whole days in t half days.
IntOf(t) == t \div 2

\* range(a, b)
Range(a, b) == [k \in 1..(b - a) |-> a + k - 1]

\* np.where(allstar['APOGEE_ID'] == id)[0][0]: the first row of that name,
\* 0 here when there is none (IndexError in the code).
FindIndex(cat, id) ==
    IF \E i \in 1..Len(cat) : cat[i].APOGEE_ID = id
    THEN CHOOSE i \in 1..Len(cat) :
            /\ cat[i].APOGEE_ID = id
            /\ \A j \in 1..(i - 1) : cat[j].APOGEE_ID # id
    ELSE 0

\* if allstar['TEFF'][indx]: a masked entry is false, a number is true
\* unless it is zero.
Truthy(x) == IsDef(x) /\ Val(x) # 0

\* The star marker of the population panel and whether the warning is
\* printed: the catalog's TEFF, LOGG, FE_H, or FPARAM[0][0], [0][1], [0][3]
\* of the spectrum file.
TargetMarker(row, fparam) ==
    IF Truthy(row.TEFF)
    THEN [source |-> "allstar", x |-> row.TEFF, y |-> row.LOGG,
          c |-> row.FE_H, warning |-> FALSE]
    ELSE [source |-> "FPARAM", x |-> Some(fparam[1]), y |-> Some(fparam[2]),
          c |-> Some(fparam[4]), warning |-> TRUE]

\* The three titles, each the pieces of its f-string.
Ax1Title == <<"APOGEE Stellar Parameters - allStar">>
Ax2Title(apogee_id) == <<"APOGEE Spectrum - ", apogee_id>>
Ax3Title(object) == <<"TESS-SPOC Light Curve - ", object>>

\* A variant in which the fallback branch ends the function.
SaveReachedUnlessWarned(marker, err2, err3) ==
    ~marker.warning /\ err2 = "" /\ err3 = ""

\* plt.savefig is reached when neither the spectrum panel nor the light
\* curve panel raised; neither branch of the marker raises.
SaveReached(marker, err2, err3) == err2 = "" /\ err3 = ""

\* The spectrum panel: the global apogee_wls, the observed flux and the
\* model flux, each indexed by the pixel mask.
SpectrumPanel(wls, spec) ==
    LET mask == PixelMask(spec.err)
        none == [err |-> "", obs |-> Undef, model |-> Undef, title |-> <<>>]
    IN  IF ~IsDef(wls) THEN [none EXCEPT !.err = "NameError"]
        ELSE IF Val(wls) # Len(mask) THEN [none EXCEPT !.err = "IndexError"]
        ELSE [err |-> "", obs |-> Some(Masked(mask)),
              model |-> Some(Masked(mask)),
              title |-> Ax2Title(spec.APOGEE_ID)]

\* The light curve panel: the samples, then one gridline for every i of
\* range(int(np.nanmin(TIME)), int(np.nanmax(TIME))).  int(NaN) raises
\* ValueError.
LightCurvePanel(lc) ==
    LET lo == NanMin(lc.TIME)
        hi == NanMax(lc.TIME)
        none == [err |-> "", tmin |-> Undef, tmax |-> Undef,
                 gridlines |-> <<>>, title |-> <<>>]
    IN  IF lo.err # "" THEN [none EXCEPT !.err = lo.err]
        ELSE IF ~IsDef(lo.v) THEN [none EXCEPT !.err = "ValueError"]
        ELSE IF hi.err # "" THEN [none EXCEPT !.err = hi.err]
        ELSE IF ~IsDef(hi.v) THEN [none EXCEPT !.err = "ValueError"]
        ELSE [err |-> "", tmin |-> lo.v, tmax |-> hi.v,
              gridlines |-> Range(IntOf(Val(lo.v)), IntOf(Val(hi.v))),
              title |-> Ax3Title(lc.OBJECT)]

NoPanels ==
    [err |-> "", marker |-> Undef, obs |-> Undef, model |-> Undef,
     tmin |-> Undef, tmax |-> Undef, gridlines |-> <<>>, titles |-> <<>>,
     saved |-> Undef]

\* plot_spectrum_and_lc(apogee_spec, tess_lightcurve) with the globals
\* allstar and apogee_wls as the kernel holds them: what the call leaves
\* behind, up to the statement that raised.
PlotPanels(in) ==
    IF ~IsDef(in.allstar) THEN [NoPanels EXCEPT !.err = "NameError"]
    ELSE
    LET cat == Val(in.allstar)
        indx == FindIndex(cat, in.apogee_spec.APOGEE_ID)
    IN  IF indx = 0 THEN [NoPanels EXCEPT !.err = "IndexError"]
        ELSE
        LET marker == TargetMarker(cat[indx], in.apogee_spec.FPARAM)
            ax1 == [NoPanels EXCEPT !.marker = Some(marker),
                                    !.titles = <<Ax1Title>>]
            p2 == SpectrumPanel(in.apogee_wls, in.apogee_spec)
        IN  IF p2.err # "" THEN [ax1 EXCEPT !.err = p2.err]
            ELSE
            LET ax2 == [ax1 EXCEPT !.obs = p2.obs, !.model = p2.model,
                                   !.titles = Append(@, p2.title)]
                p3 == LightCurvePanel(in.tess_lightcurve)
            IN  IF p3.err # "" THEN [ax2 EXCEPT !.err = p3.err]
                ELSE
                LET ax3 == [ax2 EXCEPT !.tmin = p3.tmin, !.tmax = p3.tmax,
                                       !.gridlines = p3.gridlines,
                                       !.titles = Append(@, p3.title)]
                IN  IF SaveReached(marker, p2.err, p3.err)
                    THEN [ax3 EXCEPT !.saved =
                             Some(SaveName(in.apogee_spec.APOGEE_ID))]
                    ELSE ax3

\* The inputs of one call: the catalog (unbound, without the star, or with
\* its row behind another star's), the length of the global wavelength
\* array, a spectrum file and a light curve file.
CatalogRows(id) ==
    {[APOGEE_ID |-> id, TEFF |-> t, LOGG |-> g, FE_H |-> m] :
        t \in {Undef, Some(6)}, g \in {Undef, Some(7)}, m \in {Undef, Some(8)}}

Catalogs ==
    LET other == [APOGEE_ID |-> "2M11361176+8117369", TEFF |-> Some(6),
                  LOGG |-> Some(7), FE_H |-> Some(8)]
    IN  {Undef, Some(<<>>), Some(<<other>>)}
           \cup {Some(<<other, r>>) : r \in CatalogRows(FirstStar)}

FigureInputs ==
    [allstar : Catalogs,
     apogee_wls : {Undef} \cup {Some(n) : n \in 1..MaxPix},
     apogee_spec : [APOGEE_ID : {FirstStar},
                    err : Seqs(ErrValues, MaxPix) \ {<<>>},
                    FPARAM : {<<2, 3, 4, 5>>}],
     tess_lightcurve : [TIME : Seqs(TimeValues, MaxSamples),
                        OBJECT : {"TIC 1"}]]

InitFigure ==
    /\ hdr = [s \in Ids |-> Header(0, 1, MaxPix)]
    /\ nb = EmptyKernel
    /\ cell = "figure"
    /\ run = IdleRun
    /\ files = {}
    /\ indexed = Undef
    /\ jw = NoJwst
    /\ par = NoThreads
    /\ fig \in {[pc |-> "call", in |-> i, out |-> NoPanels] :
                   i \in FigureInputs}
    /\ dl = NoDownloads

\* plot_spectrum_and_lc(apogee_spec, tess_lightcurve) runs to its end or to
\* the statement that raises.
PlotFigure ==
    /\ fig.pc = "call"
    /\ LET out == PlotPanels(fig.in)
       IN  /\ fig' = [fig EXCEPT !.pc = IF out.err = "" THEN "returned"
                                        ELSE "raised",
                                 !.out = out]
           /\ files' = SavedFiles(files, IsDef(out.saved),
                                  SaveName(fig.in.apogee_spec.APOGEE_ID))
    /\ UNCHANGED <<jw, par, dl, hdr, nb, cell, run, indexed>>

SpecFigure == InitFigure /\ [][PlotFigure]_vars

\* ------------------------------------------ download_products, in detail
\* The download statement against the download directory: each product of
\* the list that passes the filter has one local path; a file already there
\* is not transferred again (cache=True, the default the code leaves in
\* place); a transfer ends COMPLETE, and the file is there, or ERROR.  The
\* manifest has one row for each product asked for.
Statuses == {"COMPLETE", "ERROR"}
LocalPath(product) == <<"mastDownload", product>>

\* A variant with the cache switched off.
NeverCached(path, disk) == FALSE

Cached(path, disk) == path \in disk

DownloadFiles(products, label, disk, outcome) ==
    LET sel == MatchingProducts(products, label)
        wanted == {k \in 1..Len(sel) : ~Cached(LocalPath(sel[k]), disk)}
        rows == [k \in 1..Len(sel) |->
                   [product |-> sel[k], path |-> LocalPath(sel[k]),
                    status |-> IF k \in wanted THEN outcome[k]
                               ELSE "COMPLETE"]]
    IN  [manifest |-> IF sel = <<>> THEN [state |-> "None", rows |-> <<>>]
                      ELSE [state |-> "table", rows |-> rows],
         fetched |-> {LocalPath(sel[k]) : k \in wanted},
         disk |-> disk \cup
                    {rows[k].path :
                        k \in {j \in 1..Len(sel) : rows[j].status = "COMPLETE"}}]

\* The product lists of a star's observations.
ProductLists ==
    UNION {{ProductsOf(Rows(id, n), subs) :
               subs \in [1..n -> Subgroups], id \in Ids} : n \in 0..MaxObs}

InitDownload ==
    /\ hdr = [s \in Ids |-> Header(0, 1, MaxPix)]
    /\ nb = EmptyKernel
    /\ cell = "download"
    /\ run = IdleRun
    /\ files = {}
    /\ indexed = Undef
    /\ jw = NoJwst
    /\ par = NoThreads
    /\ fig = NoFigure
    /\ dl \in {[pc |-> "ready", products |-> pl, disk |-> {}, calls |-> <<>>,
                opened |-> Undef] : pl \in ProductLists}

\* manifest = Observations.download_products(products,
\*                                productSubGroupDescription='ASPCAPSTAR')
\* The statement is run, and run again: each call is kept with the disk it
\* found, its manifest and the files it transferred.
DownloadCall ==
    /\ dl.pc = "ready"
    /\ Len(dl.calls) < MaxCalls
    /\ \E outcome \in [1..Len(MatchingProducts(dl.products, "ASPCAPSTAR"))
                          -> Statuses] :
          LET res == DownloadFiles(dl.products, "ASPCAPSTAR", dl.disk, outcome)
          IN  dl' = [dl EXCEPT !.disk = res.disk,
                               !.opened = Undef,
                               !.calls = Append(@, [before |-> dl.disk,
                                                    manifest |-> res.manifest,
                                                    fetched |-> res.fetched])]
    /\ UNCHANGED <<jw, par, fig, hdr, nb, cell, run, files, indexed>>

\* aspcap_star = fits.open(manifest['Local Path'][0]): the first row's path
\* whatever its status; TypeError on a None manifest, FileNotFoundError when
\* the file is not there.
OpenFirstPath ==
    /\ dl.pc = "ready"
    /\ dl.calls # <<>>
    /\ ~IsDef(dl.opened)
    /\ LET manifest == dl.calls[Len(dl.calls)].manifest
       IN  dl' = [dl EXCEPT !.opened =
                    IF manifest.state # "table"
                    THEN Some([row |-> 0, err |-> "TypeError"])
                    ELSE Some([row |-> 1,
                               err |-> IF manifest.rows[1].path \in dl.disk
                                       THEN ""
                                       ELSE "FileNotFoundError"])]
    /\ UNCHANGED <<jw, par, fig, hdr, nb, cell, run, files, indexed>>

NextDownload ==
    \/ DownloadCall
    \/ OpenFirstPath

SpecDownload == InitDownload /\ [][NextDownload]_vars

\* ------------------------------------------------ the JWST proposal notebook
\* data_products is the product list of the observation; two cells follow:
\* the filter and the direct download.
SliceEnd == 5

JwstProducts(kinds) ==
    [k \in 1..Len(kinds) |->
        [obsID |-> k, calib_level |-> kinds[k].calib_level,
         productType |-> kinds[k].productType]]

JwstKinds == [calib_level : {2, 3}, productType : {"SCIENCE", "AUXILIARY"}]

\* Observations.filter_products(data_products, calib_level=[2],
\*                              productType="SCIENCE")
FilterProducts(products) ==
    SelectSeq(products,
              LAMBDA p : p.calib_level \in {2} /\ p.productType = "SCIENCE")

\* A slice that takes the whole list.
TakeAll(s, n) == s

\* s[:n]
Take(s, n) == SubSeq(s, 1, IF n < Len(s) THEN n ELSE Len(s))

InitJwst ==
    /\ hdr = [s \in Ids |-> Header(0, 1, MaxPix)]
    /\ nb = EmptyKernel
    /\ cell = "jwst"
    /\ run = IdleRun
    /\ files = {}
    /\ indexed = Undef
    /\ fig = NoFigure
    /\ dl = NoDownloads
    /\ par = NoThreads
    /\ jw \in {[pc |-> "filter", data_products |-> JwstProducts(kinds),
                filtered_prod |-> Undef, requested |-> Undef] :
                  kinds \in Seqs(JwstKinds, MaxProducts)}

\* filtered_prod = Observations.filter_products(data_products, ...)
CellFilter ==
    /\ jw.pc = "filter"
    /\ jw' = [jw EXCEPT !.pc = "download",
                        !.filtered_prod = Some(FilterProducts(jw.data_products))]
    /\ UNCHANGED <<par, fig, dl, hdr, nb, cell, run, files, indexed>>

\* manifest = Observations.download_products(filtered_prod[:5])
CellDirectDownload ==
    /\ jw.pc = "download"
    /\ jw' = [jw EXCEPT !.pc = "done",
                        !.requested = Some(Take(Val(jw.filtered_prod), SliceEnd))]
    /\ UNCHANGED <<par, fig, dl, hdr, nb, cell, run, files, indexed>>

NextJwst ==
    \/ CellFilter
    \/ CellDirectDownload

SpecJwst == InitJwst /\ [][NextJwst]_vars

\* ------------------------------------------ plot_variable_star in threads
\* Two invocations for two stars, their statements interleaved.  The names
\* of plot_variable_star and plot_spectrum_and_lc are local to each; what
\* they share is pyplot's current figure: plt.figure makes a new figure
\* current, plt.subplot2grid puts its axes in the current figure, and
\* plt.savefig writes the current figure.  A figure is the set of panels
\* drawn in its axes, each panel the star it shows and its place.
Threads == 1..2
StarOf(t) == IF t = 1 THEN FirstStar ELSE "2M11361176+8117369"

InitThreads ==
    /\ hdr = [s \in Ids |-> Header(0, 1, MaxPix)]
    /\ nb = EmptyKernel
    /\ cell = "threads"
    /\ run = IdleRun
    /\ files = {}
    /\ indexed = Undef
    /\ fig = NoFigure
    /\ dl = NoDownloads
    /\ jw = NoJwst
    /\ par = [pc |-> [t \in Threads |-> "fetch"],
              downloaded |-> {},
              figs |-> <<>>,
              gcf |-> 0,
              axes |-> [t \in Threads |-> <<0, 0, 0>>],
              saved |-> [t \in Threads |-> Undef]]

\* The stages before the plot: queries, downloads into the directories of
\* the star's own observations, file opens.
ThreadFetch(t) ==
    /\ par.pc[t] = "fetch"
    /\ par' = [par EXCEPT !.pc[t] = "figure",
                          !.downloaded = @ \cup {<<"mastDownload", StarOf(t)>>}]
    /\ UNCHANGED <<jw, fig, dl, hdr, nb, cell, run, files, indexed>>

\* plt.figure(figsize=(20, 10))
ThreadFigure(t) ==
    /\ par.pc[t] = "figure"
    /\ par' = [par EXCEPT !.pc[t] = "ax1",
                          !.figs = Append(@, {}),
                          !.gcf = Len(par.figs) + 1]
    /\ UNCHANGED <<jw, fig, dl, hdr, nb, cell, run, files, indexed>>

\* ax1, ax2, ax3 = plt.subplot2grid(...): one statement each.
ThreadAxes(t) ==
    /\ par.pc[t] \in {"ax1", "ax2", "ax3"}
    /\ LET k == CASE par.pc[t] = "ax1" -> 1
                  [] par.pc[t] = "ax2" -> 2
                  [] OTHER -> 3
       IN  par' = [par EXCEPT !.pc[t] = <<"ax2", "ax3", "draw">>[k],
                              !.axes[t][k] = par.gcf]
    /\ UNCHANGED <<jw, fig, dl, hdr, nb, cell, run, files, indexed>>

\* ax1.scatter, ax2.plot, ax3.plot: the three panels, each in the figure
\* its axes were put in.
ThreadDraw(t) ==
    /\ par.pc[t] = "draw"
    /\ par' = [par EXCEPT !.pc[t] = "save",
                  !.figs = [f \in 1..Len(par.figs) |->
                              par.figs[f] \cup
                                 {<<StarOf(t), k>> :
                                     k \in {j \in 1..3 : par.axes[t][j] = f}}]]
    /\ UNCHANGED <<jw, fig, dl, hdr, nb, cell, run, files, indexed>>

\* plt.savefig(save_name, bbox_inches='tight')
ThreadSave(t) ==
    /\ par.pc[t] = "save"
    /\ par' = [par EXCEPT !.pc[t] = "done",
                          !.saved[t] = Some([name |-> SaveName(StarOf(t)),
                                             panels |-> par.figs[par.gcf]])]
    /\ files' = SavedFiles(files, TRUE, SaveName(StarOf(t)))
    /\ UNCHANGED <<jw, fig, dl, hdr, nb, cell, run, indexed>>

NextThreads ==
    \E t \in Threads :
       \/ ThreadFetch(t)
       \/ ThreadFigure(t)
       \/ ThreadAxes(t)
       \/ ThreadDraw(t)
       \/ ThreadSave(t)

SpecThreads == InitThreads /\ [][NextThreads]_vars

\* ------------------------------------------------------------------ claims
InTrace(stage) == \E i \in 1..Len(run.trace) : run.trace[i] = stage
Ended == run.pc \in {"done", "failed"}
IsPrefix(p, q) == Len(p) <= Len(q) /\ \A i \in 1..Len(p) : p[i] = q[i]

\* C1: the closest-match selection returns a row whose distance is minimal
\* over the table, and among the rows at the minimal distance the first one.
C1_ClosestIsFirstMinimum ==
    (InTrace("closest") /\ run.tess_obs # <<>>) =>
        /\ run.failedAt # "closest"
        /\ run.tess_row \in 1..Len(run.tess_obs)
        /\ \A j \in 1..Len(run.tess_obs) :
              /\ run.tess_obs[run.tess_row] <= run.tess_obs[j]
              /\ j < run.tess_row =>
                    run.tess_obs[j] > run.tess_obs[run.tess_row]

\* Two rows tie at distance 0 and the first was taken.
C1_Witness ==
    /\ InTrace("closest")
    /\ Len(run.tess_obs) >= 2
    /\ run.tess_obs[1] = 0 /\ run.tess_obs[2] = 0
    /\ run.tess_row = 1

\* C2: when the spectrum query returns no observation the run fails with
\* NoObservationFoundError at the query stage, before any product listing,
\* download or file open.
C2_NoObservationFailsAtQuery ==
    (Ended /\ InTrace("query") /\ run.apogee_obs_list = <<>>) =>
        /\ run.pc = "failed"
        /\ run.err = "NoObservationFoundError"
        /\ run.failedAt = "query"
        /\ run.trace = <<"query">>

\* C3: a run of plot_variable_star that fails, at whatever stage, leaves the
\* set of saved images as it found it.
C3_FailedRunWritesNoArtifact ==
    run.pc = "failed" => files = run.filesAtStart

\* A run failed in the plot stage with an image of an earlier run on disk.
C3_Witness ==
    /\ run.pc = "failed"
    /\ run.failedAt = "plot"
    /\ files # {}
    /\ files = run.filesAtStart

\* C4: when the time-series query returns no row the run fails with
\* NoTimeSeriesFoundError before the closest-match selection is reached.
C4_NoTimeSeriesFailsBeforeSelection ==
    (Ended /\ InTrace("tess_query") /\ run.failedAt # "tess_query"
           /\ run.tess_obs = <<>>) =>
        /\ run.pc = "failed"
        /\ run.err = "NoTimeSeriesFoundError"
        /\ ~InTrace("closest")

\* C5: when no product matches the selection policy the resolver step itself
\* fails, with NotFoundError (NoProductMatchError), and no file is opened.
C5_NoMatchFailsInResolver ==
    /\ (Ended /\ InTrace("download")
              /\ MatchingProducts(run.product_list, "ASPCAPSTAR") = <<>>) =>
          /\ run.pc = "failed"
          /\ run.err \in {"NotFoundError", "NoProductMatchError"}
          /\ run.failedAt = "download"
    /\ (Ended /\ InTrace("tess_download")
              /\ MatchingProducts(run.tess_products, "Light curves") = <<>>) =>
          /\ run.pc = "failed"
          /\ run.err \in {"NotFoundError", "NoProductMatchError"}
          /\ run.failedAt = "tess_download"

\* C6: the stages of one invocation occur in the fixed order spectrum query,
\* product listing, download, file open, time-series query, closest-match
\* selection, product listing, download, file open, plot: each begins when
\* the one before it has returned, and a successful run has executed every
\* one of them exactly once.
C6_StagesInFixedOrder ==
    LET order == <<"query", "list", "download", "open", "tess_query",
                   "closest", "tess_list", "tess_download", "tess_open",
                   "plot">>
    IN  /\ IsPrefix(run.trace, order)
        /\ Running => /\ Len(run.trace) < Len(order)
                      /\ run.pc = order[Len(run.trace) + 1]
        /\ run.pc = "done" => run.trace = order
        /\ run.pc = "failed" => /\ run.trace # <<>>
                                /\ run.failedAt = run.trace[Len(run.trace)]

\* A run went through all ten stages and returned.
C6_Witness == run.pc = "done" /\ Len(run.trace) = Len(StageOrder)

\* C7: the wavelength axis of the spectrum panel is the array derived from
\* the header scalars of the spectrum file passed in.
C7_WavelengthFromPassedFile ==
    run.pc = "done" =>
        Val(run.artifact).wl =
            ApogeeWls(hdr[Val(run.artifact).spectrum.obs.star])

\* C8: the figure of a star is made of that star's own data only: nothing in
\* it was derived in an earlier cell or invocation from another star's file.
C8_NothingLeftOverIsRead ==
    run.pc = "done" =>
        /\ Val(run.artifact).wl_src = run.id
        /\ Val(run.artifact).spectrum.obs.star = run.id
        /\ Val(run.artifact).save_name = SaveName(run.id)

\* C9: the arrays indexed together by the pixel mask (wavelength, observed
\* flux, model flux, uncertainty) all have the length NAXIS1 of the file
\* being plotted.
C9_IndexedArraysShareHeaderLength ==
    IsDef(indexed) =>
        LET l == Val(indexed)
        IN  l.wl = l.npix /\ l.obs = l.npix /\ l.model = l.npix
                          /\ l.err = l.npix

PanelsOf(series) == {series[k] : k \in 1..Len(series)}
HasTitle(title, id) == \E k \in 1..Len(title) : title[k] = id

C12_OmittedIffAboveThreshold ==
    (fig.pc \in {"returned", "raised"} /\ IsDef(fig.out.obs)) =>
        LET err == fig.in.apogee_spec.err
        IN  \A i \in 1..Len(err) :
               (i \notin PanelsOf(Val(fig.out.obs)))
                  <=> (IsDef(err[i]) /\ Val(err[i]) > 10)

\* C13: when any of the star's calibrated parameters in the catalog is
\* invalid or missing the marker is drawn at the FPARAM values of the
\* spectrum file and the warning is printed; when they are all valid the
\* marker is drawn at the catalog values and no warning is printed.
C13_FallbackWhenParametersInvalid ==
    (fig.pc \in {"returned", "raised"} /\ IsDef(fig.out.marker)) =>
        LET cat == Val(fig.in.allstar)
            row == cat[FindIndex(cat, fig.in.apogee_spec.APOGEE_ID)]
            fparam == fig.in.apogee_spec.FPARAM
            valid == IsDef(row.TEFF) /\ IsDef(row.LOGG) /\ IsDef(row.FE_H)
            marker == Val(fig.out.marker)
        IN  IF valid
            THEN /\ marker.x = row.TEFF /\ marker.y = row.LOGG
                 /\ marker.c = row.FE_H
                 /\ ~marker.warning
            ELSE /\ marker.x = Some(fparam[1]) /\ marker.y = Some(fparam[2])
                 /\ marker.c = Some(fparam[4])
                 /\ marker.warning

\* C14: a call that takes the fallback branch leaves behind what the same
\* call with valid catalog parameters leaves behind, the marker apart: the
\* same panels, the same saved image, the same error if any.
C14_FallbackChangesNothingElse ==
    (fig.pc \in {"returned", "raised"} /\ IsDef(fig.out.marker)
        /\ Val(fig.out.marker).warning) =>
        LET id == fig.in.apogee_spec.APOGEE_ID
            good == [APOGEE_ID |-> id, TEFF |-> Some(6), LOGG |-> Some(7),
                     FE_H |-> Some(8)]
            ref == PlotPanels([fig.in EXCEPT !.allstar = Some(<<good>>)])
        IN  /\ ~Val(ref.marker).warning
            /\ [fig.out EXCEPT !.marker = Undef] = [ref EXCEPT !.marker = Undef]
            /\ IsDef(fig.out.saved) <=> SaveName(id) \in files
            /\ (IsDef(fig.out.obs) /\ IsDef(fig.out.tmin)) => IsDef(fig.out.saved)

\* The warning was printed and the image was saved.
C14_Witness ==
    /\ fig.pc = "returned"
    /\ Val(fig.out.marker).warning
    /\ IsDef(fig.out.saved)
    /\ files # {}

\* C16: the titles of the three panels of a figure contain one and the same
\* target identifier.
C16_TitlesShareIdentifier ==
    fig.pc = "returned" =>
        \E id \in Ids \cup {fig.in.tess_lightcurve.OBJECT} :
           /\ Len(fig.out.titles) = 3
           /\ \A k \in 1..3 : HasTitle(fig.out.titles[k], id)

C15_SavedUnderPassedIdentifier ==
    run.pc = "done" =>
        /\ Val(run.artifact).save_name =
              <<run.id, "_APOGEE_spec_TESS_lightcurve.png">>
        /\ <<run.id, "_APOGEE_spec_TESS_lightcurve.png">> \in files

\* C20: in a successful run exactly one spectrum product and exactly one
\* time-series product were resolved and downloaded, and the two files
\* opened are those products, the time-series one belonging to the
\* closest-match observation.
C20_OneProductOfEachKind ==
    run.pc = "done" =>
        /\ Len(MatchingProducts(run.product_list, "ASPCAPSTAR")) = 1
        /\ Val(run.aspcapstar) =
              MatchingProducts(run.product_list, "ASPCAPSTAR")[1]
        /\ Len(MatchingProducts(run.tess_products, "Light curves")) = 1
        /\ Len(run.manifest.rows) = 1
        /\ Val(run.tess_lc) = run.manifest.rows[1]
        /\ Val(run.tess_lc).obs.row = ArgMin(run.tess_obs)

\* C17: when some products of a batch fail, every product asked for has a
\* manifest row with its own status, the products not yet on disk were all
\* transferred (a failure does not end the batch), and the path that is
\* opened is never that of a row whose status is failure.
C17_FailedEntryIsNeverOpened ==
    dl.pc = "ready" =>
        /\ \A k \in 1..Len(dl.calls) :
              LET c == dl.calls[k]
                  sel == MatchingProducts(dl.products, "ASPCAPSTAR")
              IN  /\ Len(c.manifest.rows) = Len(sel)
                  /\ \A j \in 1..Len(sel) :
                        /\ c.manifest.rows[j].product = sel[j]
                        /\ c.manifest.rows[j].status \in {"COMPLETE", "ERROR"}
                        /\ <<"mastDownload", sel[j]>> \notin c.before =>
                              <<"mastDownload", sel[j]>> \in c.fetched
        /\ (IsDef(dl.opened) /\ Val(dl.opened).row > 0) =>
              dl.calls[Len(dl.calls)].manifest.rows[Val(dl.opened).row].status
                 # "ERROR"

\* C18: a download call that finds every product it asks for already on
\* disk, after an earlier call, returns the manifest of the call before it
\* and transfers nothing.
C18_CachedDownloadIsIdempotent ==
    dl.pc = "ready" =>
        \A k \in 2..Len(dl.calls) :
           LET sel == MatchingProducts(dl.products, "ASPCAPSTAR")
           IN  (\A j \in 1..Len(sel) :
                   <<"mastDownload", sel[j]>> \in dl.calls[k].before) =>
                  /\ dl.calls[k].manifest = dl.calls[k - 1].manifest
                  /\ dl.calls[k].fetched = {}

\* A first call transferred two files and a second call transferred none.
C18_Witness ==
    /\ dl.pc = "ready"
    /\ Len(dl.calls) >= 2
    /\ Cardinality(dl.calls[1].fetched) >= 2
    /\ dl.calls[2].before = dl.calls[1].fetched
    /\ dl.calls[2].fetched = {}

\* C21: every failure of plot_variable_star is reported with an error that
\* names the failing stage (query, resolve, download or plot) and the
\* identifier the run was started with.
C21_ErrorNamesStageAndIdentifier ==
    run.pc = "failed" =>
        /\ \E stage \in {"query", "resolve", "download", "plot"} :
              HasTitle(ErrorText(run.err), stage)
        /\ HasTitle(ErrorText(run.err), run.id)

\* C23: plot_spectrum_and_lc builds and saves the figure also when no
\* catalog is loaded or the star is not in the catalog: the spectrum panel,
\* the light curve panel and the saved file are those of the same call with
\* the star in the catalog.
C23_CatalogIsOptional ==
    (/\ fig.pc \in {"returned", "raised"}
     /\ \/ ~IsDef(fig.in.allstar)
        \/ FindIndex(Val(fig.in.allstar), fig.in.apogee_spec.APOGEE_ID) = 0) =>
        LET good == [APOGEE_ID |-> fig.in.apogee_spec.APOGEE_ID,
                     TEFF |-> Some(6), LOGG |-> Some(7), FE_H |-> Some(8)]
            ref == PlotPanels([fig.in EXCEPT !.allstar = Some(<<good>>)])
        IN  /\ fig.out.obs = ref.obs
            /\ fig.out.model = ref.model
            /\ fig.out.gridlines = ref.gridlines
            /\ fig.out.saved = ref.saved

\* C25: the wavelength array is log-spaced with the header step: its first
\* element is 10^CRVAL1 and the base-10 logarithms of consecutive elements
\* differ by CDELT1.
C25_LogSpacingIsHeaderStep ==
    IsDef(nb.apogee_wls) =>
        LET w == Val(nb.apogee_wls)
            h == hdr[w.src]
        IN  /\ Len(w.arr.nums) >= 1 => w.arr.nums[1] = h.CRVAL1 * w.arr.den
            /\ \A i \in 1..(Len(w.arr.nums) - 1) :
                  w.arr.nums[i + 1] - w.arr.nums[i] = h.CDELT1 * w.arr.den

\* C26: the gridlines of the light curve panel are at unit spacing and cover
\* the time range: every whole time between the least and the greatest
\* defined sample has a gridline and no gridline lies outside them.
C26_GridlinesCoverTimeRange ==
    (fig.pc = "returned") =>
        LET lines == PanelsOf(fig.out.gridlines)
            lo == Val(fig.out.tmin)
            hi == Val(fig.out.tmax)
        IN  /\ \A t \in 0..hi : (lo <= 2 * t /\ 2 * t <= hi) => t \in lines
            /\ \A t \in lines : lo <= 2 * t /\ 2 * t <= hi

\* C27: the spectrum file that is opened is a product of the observation
\* row whose coordinates are used for the time-series search.
C27_FileAndCoordinatesOfOneObservation ==
    (InTrace("tess_query") /\ run.failedAt # "tess_query") =>
        Val(run.aspcapstar).obs = Val(run.coord)

\* C24: the direct download asks for the first five products of the filtered
\* list, all of them when there are fewer, in list order, and each product
\* asked for is one of the observation's products of calibration level 2
\* and type SCIENCE.
C24_FirstFiveOfFilteredList ==
    IsDef(jw.requested) =>
        LET req == Val(jw.requested)
            flt == Val(jw.filtered_prod)
        IN  /\ Len(req) = IF Len(flt) < 5 THEN Len(flt) ELSE 5
            /\ \A k \in 1..Len(req) :
                  /\ req[k] = flt[k]
                  /\ req[k].calib_level = 2
                  /\ req[k].productType = "SCIENCE"
                  /\ \E j \in 1..Len(jw.data_products) :
                        jw.data_products[j] = req[k]
            /\ \A j \in 1..Len(jw.data_products) :
                  (jw.data_products[j].calib_level = 2
                     /\ jw.data_products[j].productType = "SCIENCE") =>
                     \E k \in 1..Len(flt) : flt[k] = jw.data_products[j]

\* Six products passed the filter and five were asked for.
C24_Witness ==
    /\ IsDef(jw.requested)
    /\ Len(Val(jw.filtered_prod)) >= 6
    /\ Len(Val(jw.requested)) = 5

\* C22: two invocations for different stars, interleaved in any way, end
\* with what they leave when run one after the other: each star's files in
\* the download directory, and each image holding the three panels of its
\* own star and nothing of the other's.
C22_InterleavedRunsAsSequential ==
    (\A t \in 1..2 : par.pc[t] = "done") =>
        /\ par.downloaded = {<<"mastDownload", "V1154_Cyg">>,
                             <<"mastDownload", "2M11361176+8117369">>}
        /\ Val(par.saved[1]).panels = {<<"V1154_Cyg", k>> : k \in 1..3}
        /\ Val(par.saved[2]).panels =
              {<<"2M11361176+8117369", k>> : k \in 1..3}
        /\ Val(par.saved[1]).name # Val(par.saved[2]).name
====
